---------------------------- MODULE Spec2Model ----------------------------
(***************************************************************************)
(* A model of esp32-image-composer-rs: the ESP32 image codec (checksum     *)
(* calculation, patching and verification), the partition table generator, *)
(* the flash image builder and the flash image inspector.                  *)
(*                                                                         *)
(* Rust u32 values are records [hi, lo] of two 16-bit halves               *)
(* (value = hi * 65536 + lo), so that the full 32-bit range and its        *)
(* wrap-around can be computed with integers that stay small.  Byte        *)
(* buffers are sequences of 0..255; index i of the Rust slice is element   *)
(* i + 1 of the sequence.                                                  *)
(***************************************************************************)
EXTENDS Integers, Sequences, FiniteSets, TLC

VARIABLES
    \* --- image codec (esp32.rs) ---
    data,               \* the byte buffer the codec operations act on
    orig,               \* the buffer as it was handed in
    npad,               \* number of 0xFF bytes appended to it so far
    prev,               \* the buffer before the last operation
    op,                 \* the last operation applied
    ret,                \* what the last operation returned
    \* --- partition table generator (partition/mod.rs) ---
    firmwares,          \* the firmware list, in rank order: [size] or [size, data]
    config,             \* the Config: flash_size (in bytes), max_ota_partitions, pad_flash
    overflow_checks,    \* whether the build panics on integer overflow (debug profile)
    gen,                \* what generate_table returned
    \* --- image builder and inspector (image/mod.rs, main.rs) ---
    pt_bin,             \* what PartitionTable::to_bin returns for the table
    dry_run,            \* the --dry-run option of the generate command
    build,              \* what build_flash_image returned, with the log of its writes
    output_file,        \* the output file: absent, or its bytes
    report              \* what the inspector printed

codecVars == <<data, orig, npad, prev, op, ret>>
tableVars == <<firmwares, config, overflow_checks, gen>>
buildVars == <<pt_bin, dry_run, build, output_file, report>>
vars == <<codecVars, tableVars, buildVars>>

(***************************************************************************)
(* Bounds of the model.                                                    *)
(***************************************************************************)
MaxLen == 4             \* longest buffer handed to the codec
MaxPad == 2             \* most 0xFF bytes appended to a buffer
MaxFw == 4              \* most firmwares in the list handed to generate_table
MaxSlots == 2           \* largest config.max_ota_partitions

\* Byte values the inputs are drawn from: 0x00, 0x10, 0xE9, 0xFF.
ByteVals == {0, 16, 233, 255}

(***************************************************************************)
(* Bytes and u32 words.                                                    *)
(***************************************************************************)
RECURSIVE BitXor(_, _)
\* a ^ b on non-negative integers
BitXor(a, b) ==
    IF a = 0 THEN b
    ELSE IF b = 0 THEN a
    ELSE (((a % 2) + (b % 2)) % 2) + 2 * BitXor(a \div 2, b \div 2)

\* a u32 from its two 16-bit halves
U32(h, l) == [hi |-> h, lo |-> l]

\* `n as u32` for a non-negative integer n below 2^31
ToU32(n) == U32((n \div 65536) % 65536, n % 65536)

\* the value of a u32 below 2^31 as an integer (`as usize`)
Val32(u) == u.hi * 65536 + u.lo

\* u32::from_le_bytes([b[0], b[1], b[2], b[3]])
from_le_bytes(b) == U32(b[2] + 256 * b[3], b[0] + 256 * b[1])

\* a ^ b on u32
Xor32(a, b) == U32(BitXor(a.hi, b.hi), BitXor(a.lo, b.lo))

\* w >> n on u32, for 0 <= n < 32
Shr32(w, n) ==
    IF n >= 16
    THEN U32(0, w.hi \div (2 ^ (n - 16)))
    ELSE U32(w.hi \div (2 ^ n),
             ((w.hi % (2 ^ n)) * (2 ^ (16 - n))) + (w.lo \div (2 ^ n)))

\* `w as u8`
AsU8(w) == w.lo % 256

(***************************************************************************)
(* Results.  Ok(v) and Err(e, v0): v0 is a placeholder of v's type.        *)
(***************************************************************************)
Ok(v) == [ok |-> TRUE, val |-> v, err |-> ""]
Err(e, v0) == [ok |-> FALSE, val |-> v0, err |-> e]

\* data[..n]
Prefix(d, n) == SubSeq(d, 1, n)

\* k bytes of 0xFF
Fill(k) == [i \in 1..k |-> 255]

(***************************************************************************)
(* EspChecksum::calculate_checksum                                         *)
(***************************************************************************)
ESP_ROM_CHECKSUM_INITIAL == 239     \* 0xEF

\* the i-th word's bytes, zero-padded past the end of the data
word_bytes(d, i) ==
    [j \in 0..3 |-> IF i * 4 + j < Len(d) THEN d[i * 4 + j + 1] ELSE 0]

RECURSIVE XorWords(_, _, _, _)
\* for i in i..num_words { checksum_word ^= word }
XorWords(d, i, num_words, checksum_word) ==
    IF i >= num_words THEN checksum_word
    ELSE XorWords(d, i + 1, num_words,
                  Xor32(checksum_word, from_le_bytes(word_bytes(d, i))))

\* calculate_checksum with the final reduction left out (`checksum_word as u8`)
calculate_checksum_unreduced(d) ==
    IF Len(d) = 0
    THEN Err("Cannot calculate checksum for empty data", 0)
    ELSE LET num_words == (Len(d) + 3) \div 4
             checksum_word == XorWords(d, 0, num_words, ToU32(ESP_ROM_CHECKSUM_INITIAL))
         IN  Ok(AsU8(checksum_word))

calculate_checksum(d) ==
    IF Len(d) = 0
    THEN Err("Cannot calculate checksum for empty data", 0)
    ELSE LET num_words == (Len(d) + 3) \div 4
             checksum_word == XorWords(d, 0, num_words, ToU32(ESP_ROM_CHECKSUM_INITIAL))
             final_checksum ==
                 AsU8(Xor32(Xor32(Xor32(Shr32(checksum_word, 24),
                                        Shr32(checksum_word, 16)),
                                  Shr32(checksum_word, 8)),
                            checksum_word))
         IN  Ok(final_checksum)

(***************************************************************************)
(* The backward scan of calculate_and_patch_checksum and verify_checksum:  *)
(*   while last_data_byte > 0 && data[last_data_byte] == 0xFF              *)
(*       { last_data_byte -= 1 }                                           *)
(***************************************************************************)
\* the scan without the loop: the last byte is taken as the checksum position
ScanBack_no_skip(d, last_data_byte) == last_data_byte

RECURSIVE ScanBack(_, _)
ScanBack(d, last_data_byte) ==
    IF last_data_byte > 0 /\ d[last_data_byte + 1] = 255
    THEN ScanBack(d, last_data_byte - 1)
    ELSE last_data_byte

(***************************************************************************)
(* EspChecksum::calculate_and_patch_checksum.  Returns the result, the     *)
(* buffer afterwards and the position written (-1: nothing written).       *)
(***************************************************************************)
\* the checksum calculated but not stored
calculate_and_patch_checksum_no_write(d) ==
    IF Len(d) = 0
    THEN [res |-> Err("Image data is empty", 0), data |-> d, loc |-> -1]
    ELSE [res  |-> calculate_checksum(Prefix(d, ScanBack(d, Len(d) - 1))),
          data |-> d,
          loc  |-> -1]

calculate_and_patch_checksum(d) ==
    IF Len(d) = 0
    THEN [res |-> Err("Image data is empty", 0), data |-> d, loc |-> -1]
    ELSE LET checksum_location == ScanBack(d, Len(d) - 1)
             checksum_data_len == checksum_location
             checksum == calculate_checksum(Prefix(d, checksum_data_len))
         IN  IF ~checksum.ok
             THEN [res |-> checksum, data |-> d, loc |-> -1]
             ELSE IF checksum_location < Len(d)
                  THEN [res  |-> Ok(checksum.val),
                        data |-> [d EXCEPT ![checksum_location + 1] = checksum.val],
                        loc  |-> checksum_location]
                  ELSE [res |-> Ok(checksum.val), data |-> d, loc |-> -1]

(***************************************************************************)
(* EspChecksum::verify_checksum                                            *)
(***************************************************************************)
\* a verification that takes the checksum over the stored checksum as well
verify_checksum_whole(d) ==
    IF Len(d) = 0 \/ ScanBack(d, Len(d) - 1) = 0
    THEN Err("Cannot find checksum location", FALSE)
    ELSE Ok(d[ScanBack(d, Len(d) - 1) + 1]
                = calculate_checksum(Prefix(d, ScanBack(d, Len(d) - 1) + 1)).val)

verify_checksum(d) ==
    IF Len(d) = 0
    THEN Err("Image data is empty", FALSE)
    ELSE LET last_data_byte == ScanBack(d, Len(d) - 1)
         IN  IF last_data_byte = 0
             THEN Err("Cannot find checksum location", FALSE)
             ELSE LET stored_checksum == d[last_data_byte + 1]
                      calculated_checksum == calculate_checksum(Prefix(d, last_data_byte))
                  IN  IF ~calculated_checksum.ok
                      THEN Err(calculated_checksum.err, FALSE)
                      ELSE Ok(stored_checksum = calculated_checksum.val)

(***************************************************************************)
(* u32 arithmetic as Rust performs it: the result wraps modulo 2^32, and   *)
(* a build with overflow checks (the debug profile) panics instead.        *)
(***************************************************************************)
\* a + b, wrapping
Add32(a, b) ==
    LET l == a.lo + b.lo
        h == a.hi + b.hi + (l \div 65536)
    IN  U32(h % 65536, l % 65536)

\* a + b does not fit in 32 bits
AddOverflows(a, b) == a.hi + b.hi + ((a.lo + b.lo) \div 65536) >= 65536

\* a > b
Gt32(a, b) == a.hi > b.hi \/ (a.hi = b.hi /\ a.lo > b.lo)

\* a - b, wrapping
Sub32(a, b) ==
    LET l == a.lo - b.lo
        borrow == IF l < 0 THEN 1 ELSE 0
        h == a.hi - b.hi - borrow
    IN  U32((h + 65536) % 65536, (l + 65536) % 65536)

\* a - b is negative
SubOverflows(a, b) == Gt32(b, a)

\* the four bytes of a u32, most significant first
Bytes32(a) == <<a.hi \div 256, a.hi % 256, a.lo \div 256, a.lo % 256>>

\* a / d by long division over the bytes of a, for a divisor 0 < d <= 2^22
Div32(a, dv) ==
    LET d  == Val32(dv)
        b  == Bytes32(a)
        c3 == b[1]
        c2 == (c3 % d) * 256 + b[2]
        c1 == (c2 % d) * 256 + b[3]
        c0 == (c1 % d) * 256 + b[4]
    IN  U32((c3 \div d) * 256 + (c2 \div d), (c1 \div d) * 256 + (c0 \div d))

\* a % d, for a divisor 0 < d <= 2^22
Rem32(a, dv) ==
    LET d  == Val32(dv)
        b  == Bytes32(a)
        c2 == (b[1] % d) * 256 + b[2]
        c1 == (c2 % d) * 256 + b[3]
        c0 == (c1 % d) * 256 + b[4]
    IN  ToU32(c0 % d)

\* the byte-wise products of a * m with their carries, least significant first
MulSteps(a, mv) ==
    LET m  == Val32(mv)
        b  == Bytes32(a)
        p0 == b[4] * m
        p1 == b[3] * m + (p0 \div 256)
        p2 == b[2] * m + (p1 \div 256)
        p3 == b[1] * m + (p2 \div 256)
    IN  <<p0, p1, p2, p3>>

\* a * m, wrapping, for a factor m <= 2^22
Mul32(a, mv) ==
    LET p == MulSteps(a, mv)
    IN  U32((p[4] % 256) * 256 + (p[3] % 256), (p[2] % 256) * 256 + (p[1] % 256))

\* a * m does not fit in 32 bits
MulOverflows(a, mv) == MulSteps(a, mv)[4] \div 256 > 0

(***************************************************************************)
(* Esp32P4Processor::verify_alignment                                      *)
(***************************************************************************)
IROM_ALIGN == 64 * 1024

verify_alignment(offset, is_app_partition) ==
    LET required_alignment == IF is_app_partition THEN IROM_ALIGN ELSE 4 * 1024
    IN  IF Rem32(offset, ToU32(required_alignment)) # ToU32(0)
        THEN Err("Offset not aligned", FALSE)
        ELSE Ok(TRUE)

(***************************************************************************)
(* config::FlashSize and config::defaults                                  *)
(***************************************************************************)
\* FlashSize::size_bytes of Size8MB, Size16MB, Size32MB
FlashSizes == {8 * 1024 * 1024, 16 * 1024 * 1024, 32 * 1024 * 1024}

BOOTLOADER_OFFSET      == 8192          \* 0x2000
BOOTLOADER_SIZE        == 24 * 1024
PARTITION_TABLE_OFFSET == 65536         \* 0x10000
PARTITION_TABLE_SIZE   == 4 * 1024
NVS_OFFSET             == 36864         \* 0x9000
\* an NVS size that reaches into otadata at 0xA000
NVS_SIZE_overlapping   == 8 * 1024
NVS_SIZE               == 4 * 1024
OTADATA_OFFSET         == 40960         \* 0xA000
OTADATA_SIZE           == 8 * 1024
FACTORY_OFFSET         == 131072        \* 0x20000
FACTORY_SIZE           == 1 * 1024 * 1024
OTA_ALIGNMENT          == 64 * 1024

(***************************************************************************)
(* PartitionGenerator                                                      *)
(***************************************************************************)
\* Partition::new(name, type, subtype, offset, size, Flags::empty())
Partition(name, type, subtype, offset, size) ==
    [name |-> name, type |-> type, subtype |-> subtype,
     offset |-> offset, size |-> size, flags |-> {}]

\* PartitionGenerator::align_up:
\*     ((size + alignment - 1) / alignment) * alignment
\* with `overflow` set when one of its operations leaves the u32 range.
align_up(size, alignment) ==
    LET sum  == Add32(size, alignment)
        dec  == Sub32(sum, ToU32(1))
        quot == Div32(dec, alignment)
    IN  [val      |-> Mul32(quot, alignment),
         overflow |-> \/ AddOverflows(size, alignment)
                      \/ SubOverflows(sum, ToU32(1))
                      \/ MulOverflows(quot, alignment)]

\* the outcomes of generate_table and of validate_partition_table
TableOk(partitions) == [kind |-> "ok", partitions |-> partitions, err |-> [msg |-> ""]]
TableErr(e) == [kind |-> "err", partitions |-> <<>>, err |-> e]
TablePanic == [kind |-> "panic", partitions |-> <<>>, err |-> [msg |-> "attempt to add with overflow"]]

RECURSIVE InsertByOffset(_, _)
\* p put into a list sorted by offset, after the entries that do not come later
InsertByOffset(sorted, p) ==
    IF sorted = <<>> THEN <<p>>
    ELSE IF Gt32(Head(sorted).offset, p.offset)
         THEN <<p>> \o sorted
         ELSE <<Head(sorted)>> \o InsertByOffset(Tail(sorted), p)

RECURSIVE SortByOffset(_)
\* partitions.sort_by_key(|p| p.offset()): a stable sort
SortByOffset(partitions) ==
    IF partitions = <<>> THEN <<>>
    ELSE InsertByOffset(SortByOffset(SubSeq(partitions, 1, Len(partitions) - 1)),
                        partitions[Len(partitions)])

RECURSIVE CheckSizes(_, _, _, _)
\* the first loop of validate_partition_table, from the k-th partition on
CheckSizes(partitions, k, flash_size, checks) ==
    IF k > Len(partitions) THEN TableOk(partitions)
    ELSE LET partition == partitions[k]
         IN  IF checks /\ AddOverflows(partition.offset, partition.size)
             THEN TablePanic
             ELSE IF Gt32(Add32(partition.offset, partition.size), flash_size)
                  THEN TableErr([msg |-> "exceeds flash size", name |-> partition.name])
                  ELSE CheckSizes(partitions, k + 1, flash_size, checks)

RECURSIVE CheckWindows(_, _, _)
\* the second loop of validate_partition_table, from the k-th window on
CheckWindows(sorted, k, checks) ==
    IF k + 1 > Len(sorted) THEN TableOk(sorted)
    ELSE LET current == sorted[k]
             next    == sorted[k + 1]
         IN  IF checks /\ AddOverflows(current.offset, current.size)
             THEN TablePanic
             ELSE IF Gt32(Add32(current.offset, current.size), next.offset)
                  THEN TableErr([msg |-> "overlaps", name |-> current.name,
                                 other |-> next.name])
                  ELSE CheckWindows(sorted, k + 1, checks)

\* PartitionGenerator::validate_partition_table
validate_partition_table(partitions, flash_size, checks) ==
    LET sizes == CheckSizes(partitions, 1, flash_size, checks)
    IN  IF sizes.kind # "ok" THEN sizes
        ELSE LET windows == CheckWindows(SortByOffset(partitions), 1, checks)
             IN  IF windows.kind # "ok" THEN windows ELSE TableOk(partitions)

\* the four partitions generate_table pushes first
FixedPartitions ==
    << Partition("bootloader", "App", "Factory",
                 ToU32(BOOTLOADER_OFFSET), ToU32(BOOTLOADER_SIZE)),
       Partition("partition-table", "Data", "Phy",
                 ToU32(PARTITION_TABLE_OFFSET), ToU32(PARTITION_TABLE_SIZE)),
       Partition("nvs", "Data", "Nvs", ToU32(NVS_OFFSET), ToU32(NVS_SIZE)),
       Partition("otadata", "Data", "Ota", ToU32(OTADATA_OFFSET), ToU32(OTADATA_SIZE)) >>

\* min(a, b)
Min(a, b) == IF a < b THEN a ELSE b

\* the number of arms AppType::Ota_0 .. AppType::Ota_15 of `match i`
NumOtaSubtypes == 16

\* the `ota_partitions` vector: firmwares.iter().skip(2).take(max).enumerate().map(..)
OtaPartitions(fw, max_ota) ==
    LET n == IF Len(fw) > 2 THEN Min(Len(fw) - 2, max_ota) ELSE 0
    IN  [k \in 1..n |->
            LET i == k - 1
                ota_size == align_up(fw[k + 2].size, ToU32(OTA_ALIGNMENT))
            IN  [name         |-> "ota_" \o ToString(i),
                 subtype      |-> IF i < NumOtaSubtypes THEN "Ota_" \o ToString(i) ELSE "Ota_0",
                 aligned_size |-> ota_size.val,
                 overflow     |-> ota_size.overflow,
                 actual_size  |-> fw[k + 2].size]]

\* the cursor the OTA partitions are placed from
OtaStart == Add32(ToU32(FACTORY_OFFSET), ToU32(FACTORY_SIZE))

RECURSIVE PlaceOta(_, _, _, _, _, _)
\* the loop over ota_partitions, from its k-th element on
PlaceOta(partitions, ota_partitions, k, current_offset, flash_size, checks) ==
    IF k > Len(ota_partitions) THEN TableOk(partitions)
    ELSE LET o == ota_partitions[k]
         IN  IF checks /\ AddOverflows(current_offset, o.aligned_size)
             THEN TablePanic
             ELSE IF Gt32(Add32(current_offset, o.aligned_size), flash_size)
                  THEN IF checks /\ SubOverflows(flash_size, current_offset)
                       THEN TablePanic
                       ELSE TableErr([msg       |-> "Not enough flash space for OTA partition",
                                      name      |-> o.name,
                                      needed    |-> o.aligned_size,
                                      available |-> Sub32(flash_size, current_offset)])
                  ELSE PlaceOta(Append(partitions,
                                       Partition(o.name, "App", o.subtype,
                                                 current_offset, o.aligned_size)),
                                ota_partitions, k + 1,
                                Add32(current_offset, o.aligned_size),
                                flash_size, checks)

\* PartitionGenerator::generate_table(firmwares, config); checks says whether
\* the build panics on integer overflow.
generate_table(fw, cfg, checks) ==
    LET flash_size == ToU32(cfg.flash_size)
        factory_size == align_up(fw[2].size, ToU32(OTA_ALIGNMENT))
        with_factory ==
            IF Len(fw) >= 2
            THEN Append(FixedPartitions,
                        Partition("factory", "App", "Factory",
                                  ToU32(FACTORY_OFFSET), factory_size.val))
            ELSE FixedPartitions
        ota_partitions == OtaPartitions(fw, cfg.max_ota_partitions)
    IN  IF checks /\ Len(fw) >= 2 /\ factory_size.overflow
        THEN TablePanic
        ELSE IF checks /\ \E k \in DOMAIN ota_partitions : ota_partitions[k].overflow
             THEN TablePanic
             ELSE LET placed == PlaceOta(with_factory, ota_partitions, 1, OtaStart,
                                         flash_size, checks)
                  IN  IF placed.kind # "ok" THEN placed
                      ELSE validate_partition_table(placed.partitions, flash_size, checks)

(***************************************************************************)
(* The codec as a state machine: a buffer is handed in, and the three      *)
(* operations are applied to it; a caller may pad it with 0xFF.            *)
(***************************************************************************)
RECURSIVE SeqsOf(_, _)
\* all sequences over S of length at most n
SeqsOf(S, n) ==
    IF n = 0 THEN {<<>>}
    ELSE LET shorter == SeqsOf(S, n - 1)
         IN  shorter \cup {Append(s, x) : s \in {t \in shorter : Len(t) = n - 1}, x \in S}

\* the codec is not in use
CodecIdle ==
    /\ data = <<>> /\ orig = <<>> /\ npad = 0 /\ prev = <<>>
    /\ op = "idle" /\ ret = [op |-> "idle"]

\* the partition table generator is not in use
TableIdle ==
    /\ firmwares = <<>> /\ config = [flash_size |-> 0]
    /\ overflow_checks = FALSE /\ gen = [kind |-> "idle"]

\* the image builder and the inspector are not in use
BuildIdle ==
    /\ pt_bin = [ok |-> FALSE] /\ dry_run = FALSE /\ build = [kind |-> "idle"]
    /\ output_file = [exists |-> FALSE] /\ report = [done |-> FALSE]

CodecInit ==
    /\ TableIdle
    /\ BuildIdle
    /\ data \in SeqsOf(ByteVals, MaxLen)
    /\ orig = data
    /\ npad = 0
    /\ prev = data
    /\ op = "load"
    /\ ret = [op |-> "load"]

\* EspChecksum::calculate_checksum(&data)
Calc ==
    /\ op' = "calc"
    /\ prev' = data
    /\ ret' = [op |-> "calc", res |-> calculate_checksum(data)]
    /\ UNCHANGED <<data, orig, npad>>
    /\ UNCHANGED <<tableVars, buildVars>>

\* EspChecksum::calculate_and_patch_checksum(&mut data)
Patch ==
    LET r == calculate_and_patch_checksum(data)
    IN  /\ op' = "patch"
        /\ prev' = data
        /\ data' = r.data
        /\ ret' = [op |-> "patch", res |-> r.res, loc |-> r.loc]
        /\ UNCHANGED <<orig, npad>>
        /\ UNCHANGED <<tableVars, buildVars>>

\* EspChecksum::verify_checksum(&data)
Verify ==
    /\ op' = "verify"
    /\ prev' = data
    /\ ret' = [op |-> "verify", res |-> verify_checksum(data)]
    /\ UNCHANGED <<data, orig, npad>>
    /\ UNCHANGED <<tableVars, buildVars>>

\* the caller pads the buffer with one more 0xFF byte
Pad ==
    /\ npad < MaxPad
    /\ op' = "pad"
    /\ prev' = data
    /\ data' = Append(data, 255)
    /\ npad' = npad + 1
    /\ ret' = [op |-> "pad"]
    /\ UNCHANGED orig
    /\ UNCHANGED <<tableVars, buildVars>>

CodecNext == Calc \/ Patch \/ Verify \/ Pad

SpecCodec == CodecInit /\ [][CodecNext]_vars

(***************************************************************************)
(* The partition table generator as a state machine: a firmware list and a *)
(* configuration are handed in, and generate_table is applied to them.     *)
(***************************************************************************)
\* sizes of the first firmware (the bootloader): 24 B, 32 KiB
BootSizes == {ToU32(24), ToU32(32 * 1024)}

\* sizes of the other firmwares: 24 B, 1 MiB, 1 MiB + 1, 20 MiB,
\* 0xFFFE0000 and 0xFFFFFFFF
AppSizes ==
    {ToU32(24), ToU32(1024 * 1024), ToU32(1024 * 1024 + 1), ToU32(20 * 1024 * 1024),
     U32(65534, 0), U32(65535, 65535)}

\* the firmware lists of at most n firmwares, each firmware given by its size
FwSizeLists(n) ==
    {<<>>} \cup
    {<<[size |-> b]>> \o t :
        b \in BootSizes,
        t \in SeqsOf({[size |-> a] : a \in AppSizes}, IF n > 0 THEN n - 1 ELSE 0)}

\* a bootloader, a factory application and as many OTA applications as
\* there are OTA subtypes, or one more, of 24 bytes each
ManyFirmwares ==
    {[k \in 1..n |-> [size |-> ToU32(24)]] :
        n \in {2 + NumOtaSubtypes, 2 + NumOtaSubtypes + 1}}

TableInit ==
    /\ CodecIdle
    /\ BuildIdle
    /\ firmwares \in FwSizeLists(MaxFw) \cup ManyFirmwares
    /\ config \in {[flash_size |-> f, max_ota_partitions |-> m] :
                      f \in FlashSizes,
                      m \in 0..MaxSlots \cup {NumOtaSubtypes, NumOtaSubtypes + 1}}
    /\ overflow_checks \in BOOLEAN
    /\ gen = [kind |-> "none"]

\* PartitionGenerator::generate_table(&firmwares, &config)
GenerateTable ==
    /\ gen.kind = "none"
    /\ gen' = generate_table(firmwares, config, overflow_checks)
    /\ UNCHANGED <<firmwares, config, overflow_checks>>
    /\ UNCHANGED <<codecVars, buildVars>>

TableNext == GenerateTable

SpecTable == TableInit /\ [][TableNext]_vars

(***************************************************************************)
(* Vec<u8> for the flash image.  An image is up to 32 MiB long and almost  *)
(* all of it is filler, so it is kept as its length, the filler runs that  *)
(* vec![x; n] and resize(n, x) created, and the bytes copied over them.    *)
(***************************************************************************)
\* Vec::new()
VecNew == [len |-> 0, runs |-> <<>>, mem |-> <<>>]

\* vec![0x00; n], a filler other than erased flash
VecFilled_zero(x, n) == [len |-> n, runs |-> <<[upto |-> n, val |-> 0]>>, mem |-> <<>>]

\* vec![x; n]
VecFilled(x, n) == [len |-> n, runs |-> <<[upto |-> n, val |-> x]>>, mem |-> <<>>]

\* v.resize(new_len + 1, x), one byte too many
VecResize_one_more(v, new_len, x) ==
    [v EXCEPT !.len = new_len + 1,
              !.runs = Append(v.runs, [upto |-> new_len + 1, val |-> x])]

\* v.resize(new_len, x), for new_len > v.len
VecResize(v, new_len, x) ==
    [v EXCEPT !.len = new_len,
              !.runs = Append(v.runs, [upto |-> new_len, val |-> x])]

\* v[i], for i < v.len
VecGet(v, i) ==
    IF i \in DOMAIN v.mem THEN v.mem[i]
    ELSE v.runs[CHOOSE k \in DOMAIN v.runs :
                    /\ i < v.runs[k].upto
                    /\ \A j \in 1..(k - 1) : i >= v.runs[j].upto].val

\* v[start..start + bytes.len()].copy_from_slice(bytes), for a range inside v
VecCopyFromSlice(v, start, bytes) ==
    [v EXCEPT !.mem = [i \in (DOMAIN v.mem) \cup (start..(start + Len(bytes) - 1)) |->
                          IF i >= start /\ i < start + Len(bytes)
                          THEN bytes[i - start + 1]
                          ELSE v.mem[i]]]

\* &v[start..end] as a byte sequence
VecSlice(v, start, end) == [i \in 1..(end - start) |-> VecGet(v, start + i - 1)]

(***************************************************************************)
(* Esp32P4Processor::process_bootloader_image and process_app_image        *)
(***************************************************************************)
ENCRYPTED_WRITE_ALIGN == 16
WRITE_ALIGN == 4

\* the outcome of processing: the error, or the processed bytes
Processed(bytes) == [ok |-> TRUE, bytes |-> bytes, err |-> ""]
ProcessErr(e) == [ok |-> FALSE, bytes |-> <<>>, err |-> e]

\* a bootloader processing that patches the checksum as process_app_image does
process_bootloader_image_patching(bootloader_data) ==
    IF Len(bootloader_data) < 24 \/ bootloader_data[1] # 233
    THEN ProcessErr("Invalid bootloader")
    ELSE Processed(calculate_and_patch_checksum(bootloader_data).data)

process_bootloader_image(bootloader_data) ==
    IF Len(bootloader_data) < 24
    THEN ProcessErr("Bootloader too small for ESP32 image header")
    ELSE IF bootloader_data[1] # 233
    THEN ProcessErr("Invalid ESP32 image magic byte")
    ELSE Processed(bootloader_data)

\* line 341: calculate_and_patch_checksum(app_data)?
Patched(p) == IF p.res.ok THEN Processed(p.data) ELSE ProcessErr(p.res.err)

\* process_app_image without the alignment check of lines 317-324
process_app_image_unaligned(app_data, encrypted) ==
    IF Len(app_data) < 24
    THEN ProcessErr("App image too small for ESP32 image header")
    ELSE IF app_data[1] # 233
    THEN ProcessErr("Invalid ESP32 image magic byte")
    ELSE Patched(calculate_and_patch_checksum(app_data))

process_app_image(app_data, encrypted) ==
    IF Len(app_data) < 24
    THEN ProcessErr("App image too small for ESP32 image header")
    ELSE IF app_data[1] # 233
    THEN ProcessErr("Invalid ESP32 image magic byte")
    ELSE LET alignment == IF encrypted THEN ENCRYPTED_WRITE_ALIGN ELSE WRITE_ALIGN
             padding_needed == (alignment - (Len(app_data) % alignment)) % alignment
         IN  IF padding_needed > 0
             THEN ProcessErr("App image needs padding")
             ELSE Patched(calculate_and_patch_checksum(app_data))

\* what process_app_image leaves in *app_data: the three checks return
\* before anything is written, and after them the buffer is what
\* calculate_and_patch_checksum leaves
app_data_after(app_data, encrypted) ==
    IF Len(app_data) < 24 THEN app_data
    ELSE IF app_data[1] # 233 THEN app_data
    ELSE IF ((IF encrypted THEN ENCRYPTED_WRITE_ALIGN ELSE WRITE_ALIGN)
                - (Len(app_data) % (IF encrypted THEN ENCRYPTED_WRITE_ALIGN ELSE WRITE_ALIGN)))
            % (IF encrypted THEN ENCRYPTED_WRITE_ALIGN ELSE WRITE_ALIGN) > 0
    THEN app_data
    ELSE calculate_and_patch_checksum(app_data).data

(***************************************************************************)
(* ImageBuilder::write_to_flash and serialize_partition_table              *)
(***************************************************************************)
\* the state of a build: how it goes (ok, err, panic), the image so far and
\* the log of the writes made into it
Building(flash_image) ==
    [kind |-> "ok", image |-> flash_image, writes |-> <<>>, end_offset |-> 0, err |-> ""]
BuildErr(e) ==
    [kind |-> "err", image |-> VecNew, writes |-> <<>>, end_offset |-> 0, err |-> e]
BuildPanic ==
    [kind |-> "panic", image |-> VecNew, writes |-> <<>>, end_offset |-> 0, err |-> "panic"]

\* st with bytes copied to offset and the write logged
Written(st, offset, bytes) ==
    [st EXCEPT !.image = VecCopyFromSlice(st.image, offset, bytes),
               !.writes = Append(st.writes, [offset |-> offset, len |-> Len(bytes)])]

\* a bounds check that also refuses the write that ends at the end
write_to_flash_inclusive(st, offset, bytes) ==
    IF offset + Len(bytes) >= st.image.len
    THEN BuildErr("Write exceeds flash image bounds")
    ELSE Written(st, offset, bytes)

write_to_flash(st, offset, bytes) ==
    LET start == offset
        end == start + Len(bytes)
    IN  IF end > st.image.len
        THEN BuildErr("Write exceeds flash image bounds")
        ELSE Written(st, start, bytes)

\* table.to_bin() of the esp_idf_part crate: an error, or the blob
serialize_partition_table(to_bin) ==
    IF to_bin.ok THEN Ok(to_bin.bytes) ELSE Err("to_bin", <<>>)

(***************************************************************************)
(* ImageBuilder::write_components_to_buffer (the padded image)             *)
(***************************************************************************)
\* partition_table.find(name): the entries of that name
Find(partition_table, name) ==
    {k \in DOMAIN partition_table : partition_table[k].name = name}

\* the write without the `?` on the processed component
PaddedWrite_unchecked(st, processed, aligned, offset) ==
    write_to_flash(st, offset, processed.bytes)

\* `?` on the processed component and on verify_alignment, then write_to_flash
PaddedWrite(st, processed, aligned, offset) ==
    IF ~processed.ok THEN BuildErr(processed.err)
    ELSE IF ~aligned.ok THEN BuildErr(aligned.err)
    ELSE write_to_flash(st, offset, processed.bytes)

\* lines 62-78: the bootloader, the first firmware
PaddedBootloader(st, fw) ==
    IF st.kind # "ok" \/ Len(fw) = 0 THEN st
    ELSE PaddedWrite(st, process_bootloader_image(fw[1].data), Ok(TRUE), BOOTLOADER_OFFSET)

\* `?` on the serialized table, then write_to_flash
PaddedWriteTable(st, partition_table_data) ==
    IF ~partition_table_data.ok THEN BuildErr(partition_table_data.err)
    ELSE write_to_flash(st, PARTITION_TABLE_OFFSET, partition_table_data.val)

\* lines 80-87: the partition table blob
PaddedTable(st, to_bin) ==
    IF st.kind # "ok" THEN st
    ELSE PaddedWriteTable(st, serialize_partition_table(to_bin))

\* lines 89-107: the factory application, the second firmware
PaddedFactory(st, fw) ==
    IF st.kind # "ok" \/ Len(fw) < 2 THEN st
    ELSE PaddedWrite(st, process_app_image(fw[2].data, FALSE),
                     verify_alignment(ToU32(FACTORY_OFFSET), TRUE), FACTORY_OFFSET)

\* partition_table.find(name), given that there is such an entry
Found(partition_table, name) ==
    partition_table[CHOOSE k \in Find(partition_table, name) :
                        \A j \in Find(partition_table, name) : k <= j]

\* lines 113-125: one OTA application and the entry found for it
PaddedOtaWrite(st, bytes, partition) ==
    PaddedWrite(st, process_app_image(bytes, FALSE),
                verify_alignment(partition.offset, TRUE), Val32(partition.offset))

RECURSIVE PaddedOta(_, _, _, _)
\* lines 109-127: the OTA applications, firmwares.iter().skip(2).enumerate() from i on
PaddedOta(st, fw, partition_table, i) ==
    IF st.kind # "ok" \/ i + 3 > Len(fw) THEN st
    ELSE IF Find(partition_table, "ota_" \o ToString(i)) = {}
         THEN PaddedOta(st, fw, partition_table, i + 1)
         ELSE PaddedOta(PaddedOtaWrite(st, fw[i + 3].data,
                                       Found(partition_table, "ota_" \o ToString(i))),
                        fw, partition_table, i + 1)

write_components_to_buffer(st, fw, partition_table, to_bin) ==
    PaddedOta(PaddedFactory(PaddedTable(PaddedBootloader(st, fw), to_bin), fw),
              fw, partition_table, 0)

(***************************************************************************)
(* ImageBuilder::write_components_to_minimal_buffer (the minimal image)    *)
(***************************************************************************)
Max(a, b) == IF a > b THEN a ELSE b

\* lines 153-162 (and 177-186, 201-210, 231-240): grow the buffer with 0xFF
\* to component_end, if it is shorter, and copy the component in
GrowTo(st, component_end, start, bytes) ==
    IF (IF st.image.len < component_end THEN component_end ELSE st.image.len)
           < start + Len(bytes)
    THEN BuildPanic
    ELSE Written([st EXCEPT !.image = IF st.image.len < component_end
                                      THEN VecResize(st.image, component_end, 255)
                                      ELSE st.image,
                            !.end_offset = Max(st.end_offset, component_end)],
                 start, bytes)

\* lines 149-150 (and 173-174, 197-198, 228): the end of the component, on u32
GrowAndWrite(st, offset, bytes, checks) ==
    IF AddOverflows(offset, ToU32(Len(bytes))) /\ checks THEN BuildPanic
    ELSE GrowTo(st, Val32(Add32(offset, ToU32(Len(bytes)))), Val32(offset), bytes)

\* `?` on the processed component and on verify_alignment, then the write
MinimalWrite(st, processed, aligned, offset, checks) ==
    IF ~processed.ok THEN BuildErr(processed.err)
    ELSE IF ~aligned.ok THEN BuildErr(aligned.err)
    ELSE GrowAndWrite(st, offset, processed.bytes, checks)

\* lines 142-168: the bootloader, the first firmware
MinimalBootloader(st, fw, checks) ==
    IF st.kind # "ok" \/ Len(fw) = 0 THEN st
    ELSE MinimalWrite(st, process_bootloader_image(fw[1].data), Ok(TRUE),
                      ToU32(BOOTLOADER_OFFSET), checks)

\* `?` on the serialized table, then the write
MinimalWriteTable(st, partition_table_data, checks) ==
    IF ~partition_table_data.ok THEN BuildErr(partition_table_data.err)
    ELSE GrowAndWrite(st, ToU32(PARTITION_TABLE_OFFSET), partition_table_data.val, checks)

\* lines 170-186: the partition table blob
MinimalTable(st, to_bin, checks) ==
    IF st.kind # "ok" THEN st
    ELSE MinimalWriteTable(st, serialize_partition_table(to_bin), checks)

\* lines 188-216: the factory application, the second firmware
MinimalFactory(st, fw, checks) ==
    IF st.kind # "ok" \/ Len(fw) < 2 THEN st
    ELSE MinimalWrite(st, process_app_image(fw[2].data, FALSE),
                      verify_alignment(ToU32(FACTORY_OFFSET), TRUE),
                      ToU32(FACTORY_OFFSET), checks)

\* lines 222-240: one OTA application and the entry found for it
MinimalOtaWrite(st, bytes, partition, checks) ==
    MinimalWrite(st, process_app_image(bytes, FALSE),
                 verify_alignment(partition.offset, TRUE), partition.offset, checks)

RECURSIVE MinimalOta(_, _, _, _, _)
\* lines 218-248: the OTA applications, firmwares.iter().skip(2).enumerate() from i on
MinimalOta(st, fw, partition_table, i, checks) ==
    IF st.kind # "ok" \/ i + 3 > Len(fw) THEN st
    ELSE IF Find(partition_table, "ota_" \o ToString(i)) = {}
         THEN MinimalOta(st, fw, partition_table, i + 1, checks)
         ELSE MinimalOta(MinimalOtaWrite(st, fw[i + 3].data,
                                         Found(partition_table, "ota_" \o ToString(i)), checks),
                         fw, partition_table, i + 1, checks)

write_components_to_minimal_buffer(st, fw, partition_table, to_bin, checks) ==
    MinimalOta(MinimalFactory(MinimalTable(MinimalBootloader(st, fw, checks), to_bin, checks),
                              fw, checks),
               fw, partition_table, 0, checks)

(***************************************************************************)
(* ImageBuilder::build_flash_image                                         *)
(***************************************************************************)
\* line 16, `?` on the table, and lines 18-51: the image for the table
WithTable(partition_table, fw, cfg, to_bin, checks) ==
    IF partition_table.kind = "err" THEN BuildErr(partition_table.err.msg)
    ELSE IF partition_table.kind = "panic" THEN BuildPanic
    ELSE IF cfg.pad_flash
    THEN write_components_to_buffer(Building(VecFilled(255, cfg.flash_size)),
                                    fw, partition_table.partitions, to_bin)
    ELSE write_components_to_minimal_buffer(Building(VecNew),
                                            fw, partition_table.partitions, to_bin, checks)

build_flash_image(fw, cfg, to_bin, checks) ==
    WithTable(generate_table(fw, cfg, checks), fw, cfg, to_bin, checks)

(***************************************************************************)
(* main.rs: get_component_at_offset, find_last_used_byte and               *)
(* inspect_flash_image                                                     *)
(***************************************************************************)
\* usize sums of u32 segment sizes are only ever compared with a buffer
\* length or capped by it (line 597): they are kept up to UsizeCap, which
\* is above every buffer length
UsizeCap == 2^30

\* total + seg_size on usize, up to UsizeCap
AddSegSize(total, seg_size) ==
    IF seg_size.hi >= 16384 THEN UsizeCap ELSE Min(UsizeCap, total + Val32(seg_size))

\* u32::from_le_bytes of the four bytes of image_data at pos
WordAt(image_data, pos) ==
    from_le_bytes([j \in 0..3 |-> VecGet(image_data, pos + j)])

RECURSIVE SegmentSizes(_, _, _, _)
\* lines 578-591: the segment sizes added to total_size, n segments to go
SegmentSizes(image_data, pos, n, total_size) ==
    IF n = 0 THEN total_size
    ELSE IF pos + 8 <= image_data.len
         THEN SegmentSizes(image_data, pos + 8, n - 1,
                           AddSegSize(total_size, WordAt(image_data, pos + 4)))
         ELSE SegmentSizes(image_data, pos, n - 1, total_size)

None == [some |-> FALSE, start |-> 0, end |-> 0]
Some(start, end) == [some |-> TRUE, start |-> start, end |-> end]

\* lines 604-615: the raw span up to the next component or the end of the file
FallbackSpan(image_data, start_offset, next_component_offset) ==
    LET end_offset == IF next_component_offset < image_data.len
                      THEN next_component_offset
                      ELSE image_data.len
    IN  IF end_offset > start_offset THEN Some(start_offset, end_offset) ELSE None

\* lines 597-600: the component of total_size bytes, within the file
Capped(image_data, start_offset, next_component_offset, total_size) ==
    IF Min(start_offset + total_size, image_data.len) > start_offset
    THEN Some(start_offset, Min(start_offset + total_size, image_data.len))
    ELSE FallbackSpan(image_data, start_offset, next_component_offset)

\* lines 566-594: the size from the headers of segment_count segments
HeaderWalk(image_data, start_offset, next_component_offset, segment_count, headers) ==
    Capped(image_data, start_offset, next_component_offset,
           AddSegSize(SegmentSizes(image_data, start_offset + headers, segment_count, headers),
                      ToU32(1)))

\* lines 557-602: the segment count read from bytes 4..7 of the header
WithSegmentCount(image_data, start_offset, next_component_offset, segment_count) ==
    IF Gt32(segment_count, ToU32(0)) /\ ~Gt32(segment_count, ToU32(16))
    THEN HeaderWalk(image_data, start_offset, next_component_offset, segment_count.lo,
                    24 + (IF VecGet(image_data, start_offset + 3) >= 128 THEN 16 ELSE 0)
                       + segment_count.lo * 8)
    ELSE FallbackSpan(image_data, start_offset, next_component_offset)

get_component_at_offset(image_data, start_offset, next_component_offset) ==
    IF start_offset >= image_data.len THEN None
    ELSE IF VecGet(image_data, start_offset) # 233 THEN None
    ELSE IF start_offset + 24 <= image_data.len
    THEN WithSegmentCount(image_data, start_offset, next_component_offset,
                          WordAt(image_data, start_offset + 4))
    ELSE FallbackSpan(image_data, start_offset, next_component_offset)

\* the bytes of image_data in [start, end) that are not 0xFF: the copied
\* ones, and for a filler other than 0xFF the last byte it leaves uncovered
DataBytes(image_data, start, end) ==
    {i \in DOMAIN image_data.mem : i >= start /\ i < end /\ image_data.mem[i] # 255}
    \cup {i \in {end - 1 - j : j \in 0..Cardinality(DOMAIN image_data.mem)} :
             i >= start /\ i \notin DOMAIN image_data.mem /\ VecGet(image_data, i) # 255}

\* the greatest element of a non-empty set of numbers
Greatest(S) == CHOOSE x \in S : \A y \in S : y <= x

\* one past the last of used, the bytes that are not 0xFF, or start
LastUsed(used, start) == IF used = {} THEN start ELSE Greatest(used) + 1

\* find_last_used_byte: one past the last byte that is not 0xFF, or 0
find_last_used_byte(image_data) ==
    LastUsed(DataBytes(image_data, 0, image_data.len), 0)

\* &image_data[c.start..c.end] as handed to verify_checksum.  Of the 0xFF
\* bytes that follow the slice's last other byte only the first is kept:
\* the scan of verify_checksum (lines 185-188) steps over each of them to
\* the same position.
SliceToVerify(image_data, c) ==
    VecSlice(image_data, c.start,
             Min(c.end, LastUsed(DataBytes(image_data, c.start, c.end), c.start) + 1))

\* lines 341-363: what the checksum line says of the result of verify_checksum
Verdict(verified) ==
    IF verified.ok THEN (IF verified.val THEN "pass" ELSE "fail") ELSE "unable"

\* lines 340-369: the checksum line of a component
ChecksumLine(image_data, c, verify_checksums) ==
    IF verify_checksums
    THEN Verdict(verify_checksum(SliceToVerify(image_data, c)))
    ELSE "shown"

\* lines 323-373: what is printed for the component c
AppSectionOf(image_data, c, verify_checksums) ==
    IF ~c.some THEN [printed |-> TRUE, found |-> FALSE]
    ELSE [printed |-> TRUE, found |-> TRUE,
          size |-> c.end - c.start,
          magic |-> VecGet(image_data, c.start),
          checksum |-> ChecksumLine(image_data, c, verify_checksums),
          stored |-> VecGet(image_data, c.end - 1)]

\* lines 320-374 and 425-474: what is printed for the bootloader at 0x2000
\* and for the factory application at 0x10000
AppSection(image_data, offset, next_offset, verify_checksums) ==
    IF ~(image_data.len > offset) THEN [printed |-> FALSE]
    ELSE AppSectionOf(image_data, get_component_at_offset(image_data, offset, next_offset),
                      verify_checksums)

RECURSIVE CountPartitions(_, _, _, _)
\* lines 395-417: the chunks of 32 bytes from pos on that start with 0xAA
\* 0x50, up to a chunk that starts with 0xEB 0xEB; chunks of filler after
\* the last data byte (before last) count nothing
CountPartitions(image_data, pos, end, last) ==
    IF pos >= end \/ pos >= last THEN 0
    ELSE LET two == pos + 2 <= end
             b0 == VecGet(image_data, pos)
             b1 == IF two THEN VecGet(image_data, pos + 1) ELSE 0
         IN  IF two /\ b0 = 170 /\ b1 = 80
             THEN 1 + CountPartitions(image_data, pos + 32, end, last)
             ELSE IF two /\ b0 = 235 /\ b1 = 235 THEN 0
             ELSE CountPartitions(image_data, pos + 32, end, last)

RECURSIVE NameSlicePanics(_, _, _, _)
\* lines 400-401: `&chunk[8..24]` is taken of a chunk that starts with 0xAA
\* 0x50 and has at least 16 bytes; on a last chunk of 16 to 23 bytes the
\* range ends past the chunk and the slicing panics
NameSlicePanics(image_data, pos, end, last) ==
    IF pos >= end \/ pos >= last THEN FALSE
    ELSE IF pos + 2 <= end /\ VecGet(image_data, pos) = 170
                           /\ VecGet(image_data, pos + 1) = 80
         THEN \/ (end - pos >= 16 /\ end - pos < 24)
              \/ NameSlicePanics(image_data, pos + 32, end, last)
         ELSE IF pos + 2 <= end /\ VecGet(image_data, pos) = 235
                                /\ VecGet(image_data, pos + 1) = 235
              THEN FALSE
              ELSE NameSlicePanics(image_data, pos + 32, end, last)

\* lines 379-421: what is printed for the component c
TableSectionOf(image_data, c) ==
    IF ~c.some THEN [printed |-> TRUE, found |-> FALSE, panic |-> FALSE]
    ELSE [printed |-> TRUE, found |-> TRUE,
          panic |-> NameSlicePanics(image_data, c.start, c.end,
                                    LastUsed(DataBytes(image_data, c.start, c.end), c.start)),
          size |-> c.end - c.start,
          magic |-> <<VecGet(image_data, c.start),
                      IF c.end - c.start > 1 THEN VecGet(image_data, c.start + 1) ELSE -1>>,
          partition_count |->
              CountPartitions(image_data, c.start, c.end,
                              LastUsed(DataBytes(image_data, c.start, c.end), c.start))]

\* lines 376-423: what is printed for the partition table at 0x8000
TableSection(image_data) ==
    IF ~(image_data.len > 32768) THEN [printed |-> FALSE, panic |-> FALSE]
    ELSE TableSectionOf(image_data, get_component_at_offset(image_data, 32768, 36864))

\* line 487: a component that counts as an OTA application
IsOta(image_data, c) ==
    c.some /\ c.end - c.start > 1000 /\ VecGet(image_data, c.start) = 233

\* lines 481-508: the OTA applications found at 0x110000 + i * 0x100000, i in 0..16
OtaFound(image_data) ==
    {i \in 0..15 :
        /\ image_data.len > 1114112 + (i * 1048576)
        /\ IsOta(image_data,
                 get_component_at_offset(image_data, 1114112 + (i * 1048576),
                                         1114112 + (i * 1048576) + 1048576))}

\* lines 425-532: the sections after the partition table, which are only
\* reached if the partition table section has not panicked
AfterTable(image_data, detailed, verify_checksums, bootloader, partition_table) ==
    [done |-> TRUE,
     panic |-> partition_table.panic,
     verify_checksums |-> verify_checksums,
     image_size |-> image_data.len,
     bootloader |-> bootloader,
     partition_table |-> partition_table,
     factory |-> IF partition_table.panic THEN [printed |-> FALSE]
                 ELSE AppSection(image_data, 65536, 131072, verify_checksums),
     detailed |-> IF detailed /\ ~partition_table.panic
                  THEN [ota_count |-> Cardinality(OtaFound(image_data)),
                        used_bytes |-> find_last_used_byte(image_data)]
                  ELSE [ota_count |-> -1, used_bytes |-> -1]]

\* inspect_flash_image on the bytes of the file; the report holds what the
\* sections print, without the "Calculated:" line of a failed checksum, and
\* whether the run panicked
inspect_flash_image(image_data, detailed, verify_checksums) ==
    AfterTable(image_data, detailed, verify_checksums,
               AppSection(image_data, 8192, 32768, verify_checksums),
               TableSection(image_data))

(***************************************************************************)
(* The generate command followed by the inspect command: firmwares are     *)
(* loaded, the image is built and written to the output file, and the      *)
(* inspector reads the file back.                                          *)
(***************************************************************************)
MaxComponents == 3      \* most firmwares handed to build_flash_image

\* a firmware file of n bytes: the first, the third and the last byte as
\* given, every other byte zero
Bin(n, first, third, last) ==
    [i \in 1..n |-> IF i = 1 THEN first
                    ELSE IF i = 3 THEN third
                    ELSE IF i = n THEN last ELSE 0]

\* bootloader files: a valid image that carries its checksum 0x06, one of
\* 26 bytes that ends in 0xFF, and one without the magic byte
BootBins == {Bin(24, 233, 0, 6), Bin(26, 233, 0, 255), Bin(24, 0, 0, 0)}

\* factory application files: a valid image, one that ends in 0xFF, one
\* whose checksum is 0xFF, and one whose length is not a multiple of 4
FactoryBins == {Bin(24, 233, 0, 0), Bin(28, 233, 0, 255), Bin(24, 233, 249, 0),
                Bin(26, 233, 0, 0)}

\* OTA application files: a valid image, and one that is too short
OtaBins == {Bin(28, 233, 0, 0), Bin(20, 233, 0, 0)}

\* FirmwareBinary::new
FirmwareBinary(bytes) == [size |-> ToU32(Len(bytes)), data |-> bytes]

\* the firmware lists of at most n firmwares, in rank order
FirmwareLists(n) ==
    {t \in SeqsOf({FirmwareBinary(b) : b \in BootBins \cup FactoryBins \cup OtaBins}, n) :
        \A k \in DOMAIN t :
            t[k].data \in (IF k = 1 THEN BootBins ELSE IF k = 2 THEN FactoryBins ELSE OtaBins)}

\* what to_bin may return: an error, or a blob that starts with the magic
\* bytes 0xAA 0x50 of its first entry
ToBinResults ==
    {[ok |-> FALSE, bytes |-> <<>>],
     [ok |-> TRUE, bytes |-> <<170, 80, 0, 0>>],
     [ok |-> TRUE, bytes |-> <<170, 80, 1, 0, 235, 235, 255, 255>>]}

BuildInit ==
    /\ CodecIdle
    /\ firmwares \in FirmwareLists(MaxComponents)
    /\ config \in {[flash_size |-> f, max_ota_partitions |-> m, pad_flash |-> p] :
                      f \in FlashSizes, m \in {0, 16}, p \in BOOLEAN}
    /\ overflow_checks \in BOOLEAN
    /\ gen = [kind |-> "none"]
    /\ pt_bin \in ToBinResults
    /\ dry_run \in BOOLEAN
    /\ build = [kind |-> "none"]
    /\ output_file = [exists |-> FALSE]
    /\ report = [done |-> FALSE]

\* generate_flash_image(&config, dry_run)
GenerateFlashImage ==
    /\ build.kind = "none"
    /\ build' = build_flash_image(firmwares, config, pt_bin, overflow_checks)
    /\ gen' = generate_table(firmwares, config, overflow_checks)
    /\ output_file' = IF build'.kind = "ok" /\ ~dry_run
                      THEN [exists |-> TRUE, bytes |-> build'.image]
                      ELSE output_file
    /\ UNCHANGED <<firmwares, config, overflow_checks, pt_bin, dry_run, report>>
    /\ UNCHANGED codecVars

\* inspect_flash_image(&output_file, detailed, verify_checksums)
InspectFlashImage ==
    /\ output_file.exists
    /\ ~report.done
    /\ \E detailed \in BOOLEAN, verify_checksums \in BOOLEAN :
           report' = [inspect_flash_image(output_file.bytes, detailed, verify_checksums)
                         EXCEPT !.done = TRUE]
    /\ UNCHANGED <<pt_bin, dry_run, build, output_file>>
    /\ UNCHANGED <<codecVars, tableVars>>

BuildNext == GenerateFlashImage \/ InspectFlashImage

SpecBuild == BuildInit /\ [][BuildNext]_vars

(***************************************************************************)
(* The inspect command on its own: any file may be handed to it.           *)
(***************************************************************************)
\* v with bytes copied to offset, if they fit
Placed(v, offset, bytes) ==
    IF bytes # <<>> /\ offset + Len(bytes) <= v.len
    THEN VecCopyFromSlice(v, offset, bytes)
    ELSE v

\* the lengths of the inspected files: empty, short, cut off within the
\* bootloader header, and ending 48 or 64 bytes past 0x8000, 28 bytes past
\* 0x10000 and 1100 bytes past 0x110000
FileLens == {0, 16, 8202, 8216, 32816, 32832, 65564, 1115212}

\* a header that announces one segment: cut off after the header, or
\* followed by the segment header of a segment of 4 bytes
OneSegment(n) == [i \in 1..n |-> IF i = 1 THEN 233 ELSE IF i = 5 THEN 1
                                 ELSE IF i = 37 THEN 4 ELSE 0]

\* what a file of n bytes holds at 0x2000: nothing, a magic byte only, a
\* header with no segment, a header with one segment
HeaderBlobs(n) ==
    {<<>>, <<233>>, Bin(24, 233, 0, 6), OneSegment(IF n > 8216 THEN 40 ELSE 24)}

\* the files handed to the inspector: 0xFF filler of one of the lengths
\* with blobs at 0x2000, 0x8000, 0x8020, 0x10000 and 0x110000
InspectedFiles ==
    UNION {{Placed(Placed(Placed(Placed(Placed(VecFilled(255, n), 8192, boot), 32768, first),
                                 32800, second), 65536, factory), 1114112, <<233>>) :
               boot \in HeaderBlobs(n),
               first \in {<<>>, <<233>>, <<170, 80>>},
               second \in {<<>>, <<170, 80>>, <<235, 235>>},
               factory \in {<<>>, Bin(28, 233, 0, 0)}} :
           n \in FileLens}

InspectInit ==
    /\ CodecIdle
    /\ TableIdle
    /\ pt_bin = [ok |-> FALSE]
    /\ dry_run = FALSE
    /\ build = [kind |-> "idle"]
    /\ output_file \in {[exists |-> TRUE, bytes |-> v] : v \in InspectedFiles}
    /\ report = [done |-> FALSE]

SpecInspect == InspectInit /\ [][InspectFlashImage]_vars

(***************************************************************************)
(* ImageBuilder::write_to_flash on its own: a buffer is handed in and one  *)
(* write is made into it.  The error is returned before anything is        *)
(* copied, so a failed write leaves the buffer as it was.                  *)
(***************************************************************************)
WriteToFlash ==
    /\ op = "load"
    /\ \E offset \in 0..(MaxLen + 1), bytes \in SeqsOf({66, 67}, 2) :
           LET flash_image == VecCopyFromSlice(VecFilled(255, Len(data)), 0, data)
               written == write_to_flash(Building(flash_image), offset, bytes)
           IN  /\ data' = IF written.kind = "ok"
                          THEN VecSlice(written.image, 0, written.image.len)
                          ELSE data
               /\ ret' = [op |-> "write", offset |-> offset, bytes |-> bytes,
                          ok |-> written.kind = "ok"]
    /\ op' = "write"
    /\ prev' = data
    /\ UNCHANGED <<orig, npad>>
    /\ UNCHANGED <<tableVars, buildVars>>

SpecWrite == CodecInit /\ [][WriteToFlash]_vars

(***************************************************************************)
(* EspChecksum::parse_esp32_image_header                                   *)
(***************************************************************************)
RECURSIVE ReadSegments(_, _, _, _)
\* lines 113-126: `for i in 0..segment_count`, n rounds to go; the sizes
\* are added on usize, kept up to UsizeCap
ReadSegments(d, pos, n, image_size) ==
    IF n = 0 THEN image_size
    ELSE IF pos + 8 <= Len(d)
         THEN ReadSegments(d, pos + 8, n - 1,
                           AddSegSize(image_size,
                                      from_le_bytes([j \in 0..3 |-> d[pos + 4 + j + 1]])))
         ELSE image_size

\* the result is (image_size, checksum_location)
parse_esp32_image_header(d) ==
    IF Len(d) < 24
    THEN [ok |-> FALSE, err |-> "Image too small for ESP32 header"]
    ELSE IF d[1] # 233
    THEN [ok |-> FALSE, err |-> "Invalid ESP32 image magic byte"]
    ELSE IF d[2] > 16
    THEN [ok |-> FALSE, err |-> "Invalid segment count"]
    ELSE LET headers == 24 + (IF d[4] >= 128 THEN 16 ELSE 0) + (d[2] * 8)
             checksum_location == ReadSegments(d, headers, d[2], headers)
         IN  [ok |-> TRUE, err |-> "",
              image_size |-> checksum_location + 1,
              checksum_location |-> checksum_location]

(***************************************************************************)
(* The image processor as a state machine: a file is loaded and one of     *)
(* process_app_image and process_bootloader_image is applied to it.        *)
(***************************************************************************)
\* the lengths of the loaded files: below the header size, multiples of 16,
\* multiples of 4 only, and even lengths that are no multiple of 4
ImageLens == {20, 24, 26, 28, 32, 48}

\* the loaded files: with and without the magic byte, ending in 0x00 or
\* 0xFF, with a checksum of 0x06 or 0xFF, and a magic byte followed by 0xFF
\* bytes only
ImageBins ==
    {Bin(n, first, third, last) :
        n \in ImageLens, first \in {233, 0}, third \in {0, 249}, last \in {0, 255}}
    \cup {[i \in 1..24 |-> IF i = 1 THEN 233 ELSE 255]}

\* an image laid out as the header says: the header of 24 bytes, the
\* extended header if ext, `count` segment descriptors that each declare
\* seglen bytes, the segment data, and a last byte; then pad bytes of 0xFF
HeaderImage(count, ext, seglen, last, pad) ==
    [i \in 1..(24 + (IF ext THEN 16 ELSE 0) + (count * 8) + (count * seglen) + 1 + pad) |->
        IF i = 1 THEN 233
        ELSE IF i = 2 THEN count
        ELSE IF i = 4 THEN (IF ext THEN 128 ELSE 0)
        ELSE IF i > 24 + (IF ext THEN 16 ELSE 0) + (count * 8) + (count * seglen) + 1 THEN 255
        ELSE IF i = 24 + (IF ext THEN 16 ELSE 0) + (count * 8) + (count * seglen) + 1 THEN last
        ELSE IF /\ i > 24 + (IF ext THEN 16 ELSE 0)
                /\ i <= 24 + (IF ext THEN 16 ELSE 0) + (count * 8)
                /\ (i - 24 - (IF ext THEN 16 ELSE 0)) % 8 = 5
             THEN seglen
        ELSE 0]

\* images with no, one and two segments of 0 and 4 bytes, and one that
\* announces more segments than the parser accepts
HeaderImages ==
    {HeaderImage(count, ext, seglen, last, pad) :
        count \in {0, 1, 2}, ext \in BOOLEAN, seglen \in {0, 4},
        last \in {6, 255}, pad \in {0, 3}}
    \cup {[i \in 1..24 |-> IF i = 1 THEN 233 ELSE IF i = 2 THEN 17 ELSE 0]}

ProcessInit ==
    /\ TableIdle
    /\ BuildIdle
    /\ data \in ImageBins \cup HeaderImages
    /\ orig = data
    /\ npad = 0
    /\ prev = data
    /\ op = "load"
    /\ ret = [op |-> "load"]

\* Esp32P4Processor::process_app_image(&mut data, encrypted)
ProcessApp ==
    /\ op = "load"
    /\ \E encrypted \in BOOLEAN :
           /\ ret' = [op |-> "process_app", encrypted |-> encrypted,
                      res |-> process_app_image(data, encrypted)]
           /\ data' = app_data_after(data, encrypted)
    /\ op' = "process_app"
    /\ prev' = data
    /\ UNCHANGED <<orig, npad>>
    /\ UNCHANGED <<tableVars, buildVars>>

\* Esp32P4Processor::process_bootloader_image(&mut data)
ProcessBootloader ==
    /\ op = "load"
    /\ ret' = [op |-> "process_bootloader", res |-> process_bootloader_image(data)]
    /\ op' = "process_bootloader"
    /\ prev' = data
    /\ UNCHANGED <<data, orig, npad>>
    /\ UNCHANGED <<tableVars, buildVars>>

\* EspChecksum::parse_esp32_image_header(&data)
ParseHeader ==
    /\ op = "load"
    /\ ret' = [op |-> "parse_header", res |-> parse_esp32_image_header(data)]
    /\ op' = "parse_header"
    /\ prev' = data
    /\ UNCHANGED <<data, orig, npad>>
    /\ UNCHANGED <<tableVars, buildVars>>

ProcessNext == ProcessApp \/ ProcessBootloader \/ ParseHeader

SpecProcess == ProcessInit /\ [][ProcessNext]_vars

(***************************************************************************)
(* Claims about the codec, checked under SpecCodec.                        *)
(***************************************************************************)
RECURSIVE XorBytes(_, _)
\* acc ^ d[1] ^ ... ^ d[Len(d)], byte by byte
XorBytes(acc, d) ==
    IF Len(d) = 0 THEN acc ELSE XorBytes(BitXor(acc, Head(d)), Tail(d))

\* two results agree: both fail, or both succeed with the same value
SameOutcome(a, b) == a.ok = b.ok /\ (a.ok => a.val = b.val)

\* C2: for every non-empty buffer that calculate_and_patch_checksum patches,
\* verify_checksum on the patched buffer returns Ok(true).
C2_PatchThenVerifyValid ==
    (op = "patch" /\ Len(prev) > 0 /\ ret.res.ok)
        => (verify_checksum(data).ok /\ verify_checksum(data).val = TRUE)

\* C8: calculate_checksum fails on the empty buffer, and on every other
\* buffer returns 0xEF XOR-ed with every byte of the buffer.
C8_ChecksumIsByteXor ==
    op = "calc" =>
        IF Len(data) = 0
        THEN ~ret.res.ok
        ELSE ret.res.ok /\ ret.res.val = XorBytes(239, data)

\* C8 witness: a checksum over two words, the second one partial, with
\* bytes in the upper lanes of the first word.
C8_Witness ==
    /\ op = "calc"
    /\ Len(data) = 5
    /\ data[2] = 16 /\ data[3] = 233 /\ data[4] = 0
    /\ ret.res.ok
    /\ ret.res.val = XorBytes(239, data)

\* C9: on a buffer d followed by k bytes of 0xFF, verify_checksum gives the
\* outcome it gives on d, and calculate_and_patch_checksum writes the value
\* it writes in d at the position it writes it in d.  (Two failures count as
\* the same outcome whatever their messages.)
C9_PaddingTolerance ==
    prev = orig \o Fill(npad) =>
        /\ op = "verify" => SameOutcome(ret.res, verify_checksum(orig))
        /\ op = "patch" =>
               LET p == calculate_and_patch_checksum(orig)
               IN  /\ SameOutcome(ret.res, p.res)
                   /\ ret.loc = p.loc
                   /\ data = p.data \o Fill(npad)

\* C9 witness: a buffer ending in a data byte, padded twice, then patched.
C9_Witness ==
    /\ op = "patch"
    /\ npad = 2
    /\ prev = orig \o Fill(2)
    /\ Len(orig) >= 2
    /\ orig[Len(orig)] # 255
    /\ ret.res.ok
    /\ ret.loc = Len(orig) - 1

(***************************************************************************)
(* Claims about the partition table generator, checked under SpecTable.    *)
(***************************************************************************)
\* a + b <= c, as numbers
SumAtMost(a, b, c) == ~AddOverflows(a, b) /\ ~Gt32(Add32(a, b), c)

\* the entries of the returned table with the given name
Named(name) == {i \in DOMAIN gen.partitions : gen.partitions[i].name = name}

\* the entry of the returned table with the given name
Entry(name) == gen.partitions[CHOOSE i \in Named(name) : TRUE]

\* the number of OTA entries of the returned table
NumOta == Cardinality({i \in DOMAIN gen.partitions :
                          gen.partitions[i].name \notin
                              {"bootloader", "partition-table", "nvs", "otadata", "factory"}})

\* size is len rounded up to a multiple of 64 KiB, as numbers
IsRoundedUp(size, len) ==
    /\ size.lo = 0
    /\ ~Gt32(len, size)
    /\ Gt32(ToU32(65536), Sub32(size, len))

\* C1: in every table generate_table returns, no two entries adjacent in
\* the order of their offsets overlap, and every entry ends within the
\* flash size.
C1_NoOverlapWithinCapacity ==
    gen.kind = "ok" =>
        LET sorted == SortByOffset(gen.partitions)
        IN  /\ \A k \in 1..(Len(sorted) - 1) :
                   SumAtMost(sorted[k].offset, sorted[k].size, sorted[k + 1].offset)
            /\ \A k \in DOMAIN gen.partitions :
                   SumAtMost(gen.partitions[k].offset, gen.partitions[k].size,
                             ToU32(config.flash_size))

\* C3: in every returned table with OTA entries, ota_0 starts where the
\* factory entry ends, each further OTA entry starts where the one before it
\* ends, and every OTA entry's size is its firmware's length rounded up to a
\* multiple of 64 KiB.
C3_OtaContiguousAfterFactory ==
    (gen.kind = "ok" /\ NumOta > 0) =>
        /\ Entry("ota_0").offset = Add32(Entry("factory").offset, Entry("factory").size)
        /\ ~AddOverflows(Entry("factory").offset, Entry("factory").size)
        /\ \A k \in 0..(NumOta - 2) :
               LET a == Entry("ota_" \o ToString(k))
                   b == Entry("ota_" \o ToString(k + 1))
               IN  b.offset = Add32(a.offset, a.size) /\ ~AddOverflows(a.offset, a.size)
        /\ \A k \in 0..(NumOta - 1) :
               IsRoundedUp(Entry("ota_" \o ToString(k)).size, firmwares[k + 3].size)

\* C10: in every returned table, every entry's offset has the alignment of
\* its type: 64 KiB for an application entry, 4 KiB for a data entry.
C10_OffsetsAlignedByType ==
    gen.kind = "ok" =>
        \A k \in DOMAIN gen.partitions :
            verify_alignment(gen.partitions[k].offset, gen.partitions[k].type = "App").ok

\* the number of OTA slots asked for: the firmwares of rank 2 and above, up
\* to config.max_ota_partitions
NumSlots ==
    IF Len(firmwares) > 2 THEN Min(Len(firmwares) - 2, config.max_ota_partitions) ELSE 0

\* len rounded up to a multiple of 64 KiB does not fit in 32 bits
RoundsPast32(len) == len.hi = 65535 /\ len.lo > 0

\* len rounded up to a multiple of 64 KiB, as a number below 2^32
Rounded(len) == IF len.lo = 0 THEN len ELSE U32(len.hi + 1, 0)

RECURSIVE FirstPastCapacity(_, _)
\* the first slot, from slot k on with the cursor as given, whose rounded
\* size placed at the cursor ends past the flash size, as numbers; k = -1
\* if there is none
FirstPastCapacity(k, cursor) ==
    IF k >= NumSlots THEN [k |-> -1, cursor |-> cursor]
    ELSE IF \/ RoundsPast32(firmwares[k + 3].size)
            \/ ~SumAtMost(cursor, Rounded(firmwares[k + 3].size), ToU32(config.flash_size))
         THEN [k |-> k, cursor |-> cursor]
         ELSE FirstPastCapacity(k + 1, Add32(cursor, Rounded(firmwares[k + 3].size)))

\* what C11 says of the slot `past` that ends past the flash size
NotEnoughSpaceFor(past) ==
    /\ gen.kind = "err"
    /\ gen.err.msg = "Not enough flash space for OTA partition"
    /\ gen.err.name = "ota_" \o ToString(past.k)
    /\ ~RoundsPast32(firmwares[past.k + 3].size)
    /\ gen.err.needed = Rounded(firmwares[past.k + 3].size)
    /\ ~Gt32(past.cursor, ToU32(config.flash_size))
    /\ gen.err.available = Sub32(ToU32(config.flash_size), past.cursor)

\* C11: if an OTA slot placed at the running cursor with its size rounded
\* up to 64 KiB would end past the flash size, generate_table returns the
\* not-enough-space error that names the slot and carries the rounded size
\* and the bytes left, flash size - cursor, which is not negative.
C11_NotEnoughSpaceError ==
    (gen.kind \in {"ok", "err", "panic"} /\ FirstPastCapacity(0, OtaStart).k >= 0) =>
        NotEnoughSpaceFor(FirstPastCapacity(0, OtaStart))

\* the returned table has exactly one entry of that name, with that type,
\* offset and size
HasFixed(name, type, offset, size) ==
    /\ Cardinality(Named(name)) = 1
    /\ Entry(name).type = type
    /\ Entry(name).offset = ToU32(offset)
    /\ Entry(name).size = ToU32(size)

\* the returned table holds the four system entries at their constant
\* offsets and sizes
HasSystemEntries ==
    /\ HasFixed("bootloader", "App", BOOTLOADER_OFFSET, BOOTLOADER_SIZE)
    /\ HasFixed("partition-table", "Data", PARTITION_TABLE_OFFSET, PARTITION_TABLE_SIZE)
    /\ HasFixed("nvs", "Data", NVS_OFFSET, NVS_SIZE)
    /\ HasFixed("otadata", "Data", OTADATA_OFFSET, OTADATA_SIZE)

\* C12: with no firmware at all, generate_table succeeds for every flash
\* size and returns exactly the four system entries bootloader,
\* partition-table, nvs and otadata at their constant offsets and sizes,
\* with no factory entry and no OTA entry.
C12_EmptyInputFixedTable ==
    (gen.kind # "none" /\ Len(firmwares) = 0) =>
        /\ gen.kind = "ok"
        /\ Len(gen.partitions) = 4
        /\ HasSystemEntries
        /\ Named("factory") = {}
        /\ NumOta = 0

\* C12 witness: a table was generated from no firmware for the 8 MiB flash
C12_Witness ==
    /\ gen.kind = "ok"
    /\ Len(firmwares) = 0
    /\ config.flash_size = 8 * 1024 * 1024
    /\ Len(gen.partitions) = 4

\* C13: a returned table has a factory entry exactly when at least two
\* firmwares are given; the factory entry is at FACTORY_OFFSET and its size
\* is the length of the second firmware rounded up to a multiple of 64 KiB;
\* one firmware gives four entries, two firmwares give five.
C13_FactoryIffTwoComponents ==
    gen.kind = "ok" =>
        /\ (Named("factory") # {}) <=> (Len(firmwares) >= 2)
        /\ Len(firmwares) >= 2 =>
              /\ Cardinality(Named("factory")) = 1
              /\ Entry("factory").offset = ToU32(FACTORY_OFFSET)
              /\ IsRoundedUp(Entry("factory").size, firmwares[2].size)
        /\ Len(firmwares) = 1 => Len(gen.partitions) = 4
        /\ Len(firmwares) = 2 => Len(gen.partitions) = 5

\* the OTA entries of the returned table
OtaEntries ==
    {i \in DOMAIN gen.partitions :
        gen.partitions[i].name \notin
            {"bootloader", "partition-table", "nvs", "otadata", "factory"}}

\* C14: for every slot limit, a returned table has min(number of firmwares
\* of rank 2 and above, max_ota_partitions) OTA entries; the k-th of them
\* is named ota_k and has the OTA subtype of index k, so that distinct OTA
\* entries have distinct names and distinct subtypes.
C14_OtaCountNamesSubtypes ==
    gen.kind = "ok" =>
        /\ NumOta = NumSlots
        /\ \A k \in 0..(NumSlots - 1) :
              /\ Cardinality(Named("ota_" \o ToString(k))) = 1
              /\ Entry("ota_" \o ToString(k)).type = "App"
              /\ Entry("ota_" \o ToString(k)).subtype = "Ota_" \o ToString(k)
        /\ \A i, j \in OtaEntries :
              i # j => /\ gen.partitions[i].name # gen.partitions[j].name
                       /\ gen.partitions[i].subtype # gen.partitions[j].subtype

(***************************************************************************)
(* Claims about the image builder and the inspector, checked under         *)
(* SpecBuild.                                                              *)
(***************************************************************************)
\* offset i lies inside one of the logged writes
Covered(writes, i) ==
    \E k \in DOMAIN writes : writes[k].offset <= i /\ i < writes[k].offset + writes[k].len

\* the greatest offset + length over the logged writes, 0 for none
MaxEnd(writes) ==
    IF writes = <<>> THEN 0
    ELSE Greatest({writes[k].offset + writes[k].len : k \in DOMAIN writes})

\* where run k of the image starts
RunFrom(image, k) == IF k = 1 THEN 0 ELSE image.runs[k - 1].upto

\* the copied bytes that lie in run k of the image
CopiedIn(image, k) ==
    {i \in DOMAIN image.mem : RunFrom(image, k) <= i /\ i < image.runs[k].upto}

\* every byte of the image outside the logged writes is 0xFF: a run of
\* another filler is copied over entirely by writes, and so is every copied
\* byte that is not 0xFF
UnwrittenIsFF(image, writes) ==
    /\ \A k \in DOMAIN image.runs :
           image.runs[k].val # 255 =>
               /\ \A i \in CopiedIn(image, k) : Covered(writes, i)
               /\ Cardinality(CopiedIn(image, k)) = image.runs[k].upto - RunFrom(image, k)
    /\ \A i \in DOMAIN image.mem : image.mem[i] # 255 => Covered(writes, i)

RECURSIVE CountFF(_, _)
\* the number of 0xFF bytes in runs 1..k of the image
CountFF(image, k) ==
    IF k = 0 THEN 0
    ELSE CountFF(image, k - 1)
         + (IF image.runs[k].val = 255
            THEN (image.runs[k].upto - RunFrom(image, k))
                 - Cardinality({i \in CopiedIn(image, k) : image.mem[i] # 255})
            ELSE Cardinality({i \in CopiedIn(image, k) : image.mem[i] = 255}))

\* C4: when an image built from a bootloader and a factory application is
\* inspected with checksum verification, the inspector finds both regions,
\* reports the magic byte 0xE9 for each and a passing checksum for each.
C4_BuildInspectRoundTrip ==
    (report.done /\ report.verify_checksums /\ build.kind = "ok" /\ Len(firmwares) = 2) =>
        /\ report.bootloader.printed /\ report.bootloader.found
        /\ report.bootloader.magic = firmwares[1].data[1]
        /\ report.bootloader.magic = 233
        /\ report.bootloader.checksum = "pass"
        /\ report.factory.printed /\ report.factory.found
        /\ report.factory.magic = firmwares[2].data[1]
        /\ report.factory.magic = 233
        /\ report.factory.checksum = "pass"

\* C5: in a successful minimal build from two firmwares, byte 0 of the
\* image is byte 0 of the first firmware, the byte at the factory offset is
\* byte 0 of the second, and the image is longer than the second firmware
\* and shorter than the flash size.
C5_MinimalEndToEnd ==
    (build.kind = "ok" /\ ~config.pad_flash /\ Len(firmwares) = 2) =>
        /\ VecGet(build.image, 0) = firmwares[1].data[1]
        /\ VecGet(build.image, FACTORY_OFFSET) = firmwares[2].data[1]
        /\ build.image.len > Len(firmwares[2].data)
        /\ build.image.len < config.flash_size

C7_MinimalImage ==
    (build.kind = "ok" /\ ~config.pad_flash) =>
        /\ build.image.len = MaxEnd(build.writes)
        /\ \A k \in DOMAIN build.image.runs :
               /\ build.image.runs[k].val = 255
               /\ RunFrom(build.image, k) < build.image.runs[k].upto
        /\ UnwrittenIsFF(build.image, build.writes)
        /\ Len(firmwares) = 0 =>
               /\ build.image.len = PARTITION_TABLE_OFFSET + Len(pt_bin.bytes)
               /\ VecSlice(build.image, PARTITION_TABLE_OFFSET, build.image.len) = pt_bin.bytes

\* a minimal image built from no firmwares: 0xFF up to the partition table
\* offset, then the blob of eight bytes
C7_Witness ==
    /\ build.kind = "ok" /\ ~config.pad_flash /\ Len(firmwares) = 0
    /\ Len(pt_bin.bytes) = 8
    /\ build.image.len = 65544
    /\ VecGet(build.image, 65535) = 255
    /\ VecGet(build.image, 65536) = 170

\* the bytes of the image from offset on that a component of that length takes
RegionAt(image, offset, length) == VecSlice(image, offset, offset + length)

SomeStepFails ==
    \/ gen.kind # "ok"
    \/ ~pt_bin.ok
    \/ Len(firmwares) >= 1 /\ ~process_bootloader_image(firmwares[1].data).ok
    \/ Len(firmwares) >= 2 /\ ~process_app_image(firmwares[2].data, FALSE).ok
    \/ \E k \in 3..Len(firmwares) :
           /\ k - 3 < config.max_ota_partitions
           /\ ~process_app_image(firmwares[k].data, FALSE).ok

C18_InspectorNeverPanics ==
    report.done =>
        /\ ~report.panic
        /\ report.image_size = output_file.bytes.len
        /\ (output_file.bytes.len > 8192 /\ VecGet(output_file.bytes, 8192) # 233)
              => (report.bootloader.printed /\ ~report.bootloader.found)
        /\ (output_file.bytes.len > 65536 /\ VecGet(output_file.bytes, 65536) # 233)
              => (report.factory.printed /\ ~report.factory.found)

\* the positions (from 0) of the bytes of d that are not 0xFF
NonFF(d) == {i \in 0..(Len(d) - 1) : d[i + 1] # 255}

\* the position of the last byte of d that is not 0xFF
LastNonFF(d) == Greatest(NonFF(d))

\* going back over 0xFF bytes from the end of d ends at position 0
ScanReachesZero(d) == \A i \in 1..(Len(d) - 1) : d[i + 1] = 255

\* C19: verify_checksum returns an error or a boolean for every buffer; it
\* returns an error exactly when the buffer is empty or the backward scan
\* over 0xFF bytes reaches position 0, and otherwise it returns whether the
\* byte at the last position that is not 0xFF equals calculate_checksum of
\* the bytes before that position.
C19_VerifyTotal ==
    op = "verify" =>
        /\ data = prev
        /\ ret.res.ok \in BOOLEAN
        /\ ~ret.res.ok <=> (Len(data) = 0 \/ ScanReachesZero(data))
        /\ ret.res.ok =>
              /\ ret.res.val \in BOOLEAN
              /\ LastNonFF(data) >= 1
              /\ calculate_checksum(Prefix(data, LastNonFF(data))).ok
              /\ ret.res.val <=>
                    (data[LastNonFF(data) + 1]
                        = calculate_checksum(Prefix(data, LastNonFF(data))).val)
              /\ ret.res.val <=>
                    (data[LastNonFF(data) + 1] = XorBytes(239, Prefix(data, LastNonFF(data))))

\* C19 witness: 0xFF 0x10 with padding verifies, 0x10 being 0xEF xor 0xFF
C19_Witness ==
    /\ op = "verify"
    /\ Len(data) >= 3
    /\ data[1] = 255 /\ data[2] = 16 /\ data[3] = 255
    /\ ret.res.ok
    /\ ret.res.val

\* the patch has failed and left the buffer as it was
PatchFailed == ~ret.res.ok /\ data = prev /\ ret.loc = -1

\* the patch has succeeded: it has stored calculate_checksum of the bytes
\* before the last byte that is not 0xFF at the position of that byte, and
\* has changed no other byte and not the length
PatchStored ==
    /\ ret.res.ok
    /\ NonFF(prev) # {}
    /\ calculate_checksum(Prefix(prev, LastNonFF(prev))).ok
    /\ ret.res.val = calculate_checksum(Prefix(prev, LastNonFF(prev))).val
    /\ ret.res.val = XorBytes(239, Prefix(prev, LastNonFF(prev)))
    /\ ret.loc = LastNonFF(prev)
    /\ Len(data) = Len(prev)
    /\ data[LastNonFF(prev) + 1] = ret.res.val
    /\ \A i \in 1..Len(prev) : i # LastNonFF(prev) + 1 => data[i] = prev[i]

\* C20: calculate_and_patch_checksum fails, leaving the buffer unchanged, if
\* the buffer is empty or holds 0xFF bytes only, and succeeds on every other
\* buffer, storing the checksum of the bytes before the last byte that is
\* not 0xFF at the position of that byte and changing nothing else.
C20_PatchFailsOnlyOnEmptyOrFF ==
    op = "patch" =>
        IF Len(prev) = 0 \/ NonFF(prev) = {} THEN PatchFailed ELSE PatchStored

\* C20 as amended: calculate_and_patch_checksum fails, leaving the buffer
\* unchanged, if the buffer is empty or every byte after the first is 0xFF
\* (the last byte that is not 0xFF, if any, is the first byte, and there is
\* nothing before it to take the checksum of), and succeeds on every other
\* buffer, storing the checksum as C20 says.
C20_PatchFailsIffNothingBefore ==
    op = "patch" =>
        IF Len(prev) = 0 \/ ScanReachesZero(prev) THEN PatchFailed ELSE PatchStored

\* C20 witness: 0xE9 0x00 0xFF is patched to 0xE9 0x06 0xFF
C20_Witness ==
    /\ op = "patch"
    /\ prev = <<233, 0, 255>>
    /\ ret.res.ok
    /\ ret.loc = 1
    /\ data = <<233, 6, 255>>

\* d has a valid header: at least 24 bytes, the magic byte, at most 16
\* segments
ValidHeader(d) == Len(d) >= 24 /\ d[1] = 233 /\ d[2] <= 16

\* where the segment descriptors start: after the header and, if its flag
\* is set, the extended header
DescriptorsAt(d) == 24 + (IF d[4] >= 128 THEN 16 ELSE 0)

\* the length that the i-th segment descriptor of d declares (i from 0):
\* the little-endian value of its last four bytes
DeclaredLen(d, i) ==
    Val32(from_le_bytes([j \in 0..3 |-> d[DescriptorsAt(d) + (8 * i) + 4 + j + 1]]))

RECURSIVE SumDeclared(_, _)
\* the sum of the lengths that the first n descriptors of d declare
SumDeclared(d, n) == IF n = 0 THEN 0 ELSE SumDeclared(d, n - 1) + DeclaredLen(d, n - 1)

\* the total size of the image that the header of d describes
TotalSize(d) == DescriptorsAt(d) + (8 * d[2]) + SumDeclared(d, d[2]) + 1

\* C21: for every valid header whose descriptors lie in the buffer, the
\* parse returns the total size 24 + (16 if the extended-header flag is
\* set) + 8 * segment count + the declared segment lengths + 1 and the
\* checksum location total size - 1; and in an image of exactly that size,
\* with or without 0xFF bytes after it, that location is where the backward
\* scan of patch and verify ends.
C21_HeaderParseTotalSize ==
    (op = "parse_header" /\ ValidHeader(data)
        /\ DescriptorsAt(data) + (8 * data[2]) <= Len(data)) =>
        /\ ret.res.ok
        /\ ret.res.image_size = TotalSize(data)
        /\ ret.res.checksum_location = ret.res.image_size - 1
        /\ (/\ Len(data) >= TotalSize(data)
            /\ \A i \in (TotalSize(data) + 1)..Len(data) : data[i] = 255)
              => ScanBack(data, Len(data) - 1) = ret.res.checksum_location

\* the number of segment descriptors of d that lie within the buffer
DescriptorsInBuffer(d) ==
    Cardinality({i \in 0..(d[2] - 1) : DescriptorsAt(d) + (8 * i) + 8 <= Len(d)})

\* C23: the parse reads the i-th segment descriptor from the 8 bytes at
\* 24 + (16 if the extended-header flag is set) + 8 * i and takes the
\* little-endian value of its last four bytes as the declared length; a
\* descriptor that runs past the end of the buffer ends the walk without an
\* error.  So the checksum location is the size of the headers plus the
\* lengths declared by the descriptors that lie in the buffer.
C23_DescriptorsAfterHeader ==
    (op = "parse_header" /\ ValidHeader(data)) =>
        /\ ret.res.ok
        /\ ret.res.checksum_location =
              DescriptorsAt(data) + (8 * data[2])
                 + SumDeclared(data, DescriptorsInBuffer(data))

\* C22: write_to_flash fails and leaves the buffer unchanged whenever
\* offset + len(data) > len(buffer), and a padded build making that write
\* fails; otherwise it overwrites exactly the bytes from offset to
\* offset + len(data) with data and leaves every other byte and the length
\* of the buffer unchanged.
C22_WriteToFlashBounds ==
    op = "write" =>
        IF ret.offset + Len(ret.bytes) > Len(prev)
        THEN /\ ~ret.ok
             /\ data = prev
             /\ PaddedWrite(Building(VecFilled(255, Len(prev))), Processed(ret.bytes),
                            Ok(TRUE), ret.offset).kind = "err"
        ELSE /\ ret.ok
             /\ Len(data) = Len(prev)
             /\ \A i \in 1..Len(prev) :
                   data[i] = IF i > ret.offset /\ i <= ret.offset + Len(ret.bytes)
                             THEN ret.bytes[i - ret.offset]
                             ELSE prev[i]

\* C22 witness: two bytes written into the last two positions of a buffer
\* of four bytes
C22_Witness ==
    /\ op = "write"
    /\ ret.ok
    /\ Len(prev) = 4
    /\ ret.offset = 2
    /\ ret.bytes = <<66, 67>>
    /\ data = <<prev[1], prev[2], 66, 67>>

\* the bytes of the file from start on that a header parse can reach: the
\* header, the extended header and sixteen descriptors read behind sixteen
\* descriptors
HeaderWindow(image_data, start) ==
    VecSlice(image_data, start, Min(image_data.len, start + 24 + 16 + 128 + 128))

\* the codec's total size of the image at start, capped at the end of the file
CodecSize(image_data, start) ==
    Min(parse_esp32_image_header(HeaderWindow(image_data, start)).image_size,
        image_data.len - start)

\* the section reports a component of the size the codec's parse gives
AgreesWithCodec(section, image_data, start) ==
    (image_data.len > start /\ parse_esp32_image_header(HeaderWindow(image_data, start)).ok)
        => /\ section.printed
           /\ section.found
           /\ section.size = CodecSize(image_data, start)

\* C24: wherever the codec's header parse succeeds on the bytes of a region,
\* the slice that get_component_at_offset returns for the region has the
\* codec's total image size, capped at the end of the buffer.
C24_InspectorAgreesWithCodec ==
    (report.done /\ ~report.panic) =>
        /\ AgreesWithCodec(report.bootloader, output_file.bytes, 8192)
        /\ AgreesWithCodec(report.factory, output_file.bytes, 65536)

\* the byte at start is not the magic byte, or the header walk of the
\* inspector fails: fewer than 24 bytes, or a segment count of 0 or above 16
NoHeaderAt(image_data, start) ==
    \/ VecGet(image_data, start) # 233
    \/ image_data.len - start < 24
    \/ WordAt(image_data, start + 4) = ToU32(0)
    \/ Gt32(WordAt(image_data, start + 4), ToU32(16))

\* the section reports the raw span from start to the next fixed offset, or
\* to the end of the file if that comes first
ReportsRawSpan(section, image_data, start, next) ==
    (image_data.len > start /\ NoHeaderAt(image_data, start))
        => /\ section.printed
           /\ section.found
           /\ section.size = Min(next, image_data.len) - start

\* C25: for a region that starts inside the buffer, if the byte at its
\* start is not the magic byte or the header walk fails, the inspector
\* reports the raw span from the start of the region up to the next fixed
\* offset, or up to the end of the buffer when the buffer ends earlier.
C25_InspectorFallback ==
    (report.done /\ ~report.panic) =>
        /\ ReportsRawSpan(report.bootloader, output_file.bytes, 8192, 32768)
        /\ ReportsRawSpan(report.partition_table, output_file.bytes, 32768, 36864)
        /\ ReportsRawSpan(report.factory, output_file.bytes, 65536, 131072)

(***************************************************************************)
(* Builds whose bootloader file is longer than the bootloader partition.   *)
(***************************************************************************)
\* a bootloader file one byte longer than BOOTLOADER_SIZE: a valid header,
\* then zeros
BigBootloader == Bin(BOOTLOADER_SIZE + 1, 233, 0, 0)

\* the firmware lists of one to three firmwares whose bootloader is a small
\* or a big one
BigFirmwareLists ==
    {t \in FirmwareLists(MaxComponents) \cup
           {<<FirmwareBinary(BigBootloader)>> \o Tail(u) :
                u \in FirmwareLists(MaxComponents) \ {<<>>}} :
        /\ Len(t) >= 1
        /\ t[1].data \in {Bin(24, 233, 0, 6), BigBootloader}
        /\ Len(t) >= 2 => t[2].data = Bin(24, 233, 0, 0)}

\* a release build for a flash of 8 MiB and a table blob of 4 bytes
BigInit ==
    /\ CodecIdle
    /\ firmwares \in BigFirmwareLists
    /\ config \in {[flash_size |-> 8 * 1024 * 1024, max_ota_partitions |-> m, pad_flash |-> p] :
                      m \in {0, 16}, p \in BOOLEAN}
    /\ overflow_checks = FALSE
    /\ gen = [kind |-> "none"]
    /\ pt_bin = [ok |-> TRUE, bytes |-> <<170, 80, 0, 0>>]
    /\ dry_run \in BOOLEAN
    /\ build = [kind |-> "none"]
    /\ output_file = [exists |-> FALSE]
    /\ report = [done |-> FALSE]

SpecBig == BigInit /\ [][GenerateFlashImage]_vars

\* the write w lies inside the partition p
WriteInside(w, p) ==
    /\ Val32(p.offset) = w.offset
    /\ w.offset + w.len <= Val32(p.offset) + Val32(p.size)

\* the writes j and k of the log have a byte in common
WritesOverlap(j, k) ==
    /\ build.writes[j].offset < build.writes[k].offset + build.writes[k].len
    /\ build.writes[k].offset < build.writes[j].offset + build.writes[j].len

\* C26: in every successful build, in both modes, each written blob lies
\* inside its own partition, the entry of the table that starts at the
\* offset the blob is written to, and no two writes overlap.
C26_WritesInsidePartitions ==
    build.kind = "ok" =>
        /\ \A k \in DOMAIN build.writes :
               \E n \in DOMAIN gen.partitions :
                   WriteInside(build.writes[k], gen.partitions[n])
        /\ \A j, k \in DOMAIN build.writes : j # k => ~WritesOverlap(j, k)

\* build_flash_image in the other mode, on the same firmwares, flash size
\* and slot limit
OtherMode ==
    build_flash_image(firmwares, [config EXCEPT !.pad_flash = ~config.pad_flash],
                      pt_bin, overflow_checks)

\* the minimal image is a prefix of the padded one, and what the padded
\* image has beyond it is 0xFF
SameUpToPadding(minimal, padded) ==
    /\ minimal.len <= padded.len
    /\ \A k \in DOMAIN minimal.runs : minimal.runs[k].val = 255
    /\ \A k \in DOMAIN padded.runs : padded.runs[k].val = 255
    /\ DOMAIN minimal.mem = DOMAIN padded.mem
    /\ \A i \in DOMAIN minimal.mem : minimal.mem[i] = padded.mem[i] /\ i < minimal.len

\* C27: for the same components, capacity and slot limit, the build
\* succeeds in minimal mode if and only if it succeeds in padded mode, the
\* minimal image is not longer than the capacity, and it is the prefix of
\* the padded image, whose remaining bytes are 0xFF.  It holds for the
\* firmware files of SpecBuild, which are far shorter than the flash.
C27_ModesAgreeUpToPadding ==
    build.kind # "none" =>
        /\ (build.kind = "ok") <=> (OtherMode.kind = "ok")
        /\ build.kind = "ok" =>
               IF config.pad_flash
               THEN /\ SameUpToPadding(OtherMode.image, build.image)
                    /\ OtherMode.image.len <= config.flash_size
               ELSE /\ SameUpToPadding(build.image, OtherMode.image)
                    /\ build.image.len <= config.flash_size

\* the bytes the builder writes for the firmware of rank r - 1
ProcessedBytes(r) ==
    IF r = 1 THEN process_bootloader_image(firmwares[r].data).bytes
    ELSE process_app_image(firmwares[r].data, FALSE).bytes

\* the image holds bytes at offset
HoldsAt(image, offset, bytes) ==
    /\ offset + Len(bytes) <= image.len
    /\ VecSlice(image, offset, offset + Len(bytes)) = bytes

\* the firmware of rank r - 1 is in the image: at the bootloader offset, at
\* the factory offset, or at the offset of the entry ota_k of the table
PresentInOutput(r) ==
    IF r = 1 THEN HoldsAt(build.image, BOOTLOADER_OFFSET, ProcessedBytes(r))
    ELSE IF r = 2 THEN HoldsAt(build.image, FACTORY_OFFSET, ProcessedBytes(r))
    ELSE \E n \in DOMAIN gen.partitions :
             /\ gen.partitions[n].name = "ota_" \o ToString(r - 3)
             /\ HoldsAt(build.image, Val32(gen.partitions[n].offset), ProcessedBytes(r))

\* C28: no component is dropped silently: when build_flash_image succeeds,
\* every firmware handed to it is in the image, rank 0 at the bootloader
\* offset, rank 1 at the factory offset and the k-th of the later ranks at
\* the offset of the entry ota_k.
C28_NoComponentDropped ==
    build.kind = "ok" => \A r \in DOMAIN firmwares : PresentInOutput(r)

\* a second calculate_and_patch_checksum on the patched buffer gives what
\* the first gave and leaves the buffer as it is
SecondPatchSame(again) ==
    /\ again.res.ok
    /\ again.res.val = ret.res.val
    /\ again.loc = ret.loc
    /\ again.data = data

AlignUpExact(size) ==
    /\ ~align_up(size, ToU32(OTA_ALIGNMENT)).overflow
    /\ align_up(size, ToU32(OTA_ALIGNMENT)).val = Rounded(size)

RECURSIVE CursorWraps(_, _, _)
\* some current_offset + aligned_size that generate_table computes, from
\* the k-th OTA partition on with the cursor as given, leaves the u32 range
CursorWraps(ota_partitions, k, cursor) ==
    IF k > Len(ota_partitions) THEN FALSE
    ELSE \/ AddOverflows(cursor, ota_partitions[k].aligned_size)
         \/ /\ ~Gt32(Add32(cursor, ota_partitions[k].aligned_size), ToU32(config.flash_size))
            /\ CursorWraps(ota_partitions, k + 1,
                           Add32(cursor, ota_partitions[k].aligned_size))

\* C30: for the size of every firmware generate_table sizes a partition
\* from, align_up(size, 64 KiB) is the least multiple of 64 KiB that is at
\* least size, computed without 32-bit overflow, and no sum
\* current_offset + aligned_size of the OTA cursor wraps modulo 2^32.
C30_AlignUpAndCursorExact ==
    gen.kind # "none" =>
        /\ \A r \in DOMAIN firmwares : r >= 2 => AlignUpExact(firmwares[r].size)
        /\ ~CursorWraps(OtaPartitions(firmwares, config.max_ota_partitions), 1, OtaStart)

=============================================================================
